---------------------------- MODULE Spec2Model ----------------------------
(***************************************************************************)
(* ccr-rs: the ConfidentialComputeRecord / ConfidentialComputeRequest      *)
(* transaction type, its wire envelope (EIP-2718 type 0x43), its signing   *)
(* preimage (prefix 0x42) and the from_tx_request constructor.             *)
(*                                                                         *)
(* Values.  A byte string is a sequence of 0..255.  An unsigned integer    *)
(* (u8, u64, U256) is held as its minimal big-endian byte string (zero is   *)
(* the empty string), the form RLP writes and reads; its width is the      *)
(* longest string the type admits (1, 8, 32 bytes).  Address and           *)
(* FixedBytes<32> are byte strings of exactly 20 and 32 bytes.             *)
(***************************************************************************)
EXTENDS Integers, Sequences, FiniteSets, TLC

VARIABLES
    record,     \* Option<ConfidentialComputeRecord>: the Record being built
    request,    \* Option<ConfidentialComputeRequest>: the Request built from it
    ret         \* the last call: its name, its arguments and what it returned

vars == <<record, request, ret>>

-----------------------------------------------------------------------------
(* Bounds of the model *)

\* Longest call data / confidential input byte string drawn as an input.
MaxInputLen == 1

-----------------------------------------------------------------------------
(* Option, Result and panics *)

None == [some |-> FALSE]
Some(x) == [some |-> TRUE, val |-> x]

Ok(x) == [kind |-> "Ok", val |-> x]
Err(e) == [kind |-> "Err", err |-> e]
\* Option::expect / Result::expect on None / Err: the thread panics.
Panic(m) == [kind |-> "Panic", msg |-> m]

UnwrapOr(o, d) == IF o.some THEN o.val ELSE d

-----------------------------------------------------------------------------
(* Byte strings and fixed-width integers *)

Byte == 0..255

Repeat(b, n) == [i \in 1..n |-> b]

RECURSIVE BEBytes(_)
\* usize::to_be_bytes with the leading zeros cut (zero is empty).
BEBytes(n) == IF n = 0 THEN <<>> ELSE BEBytes(n \div 256) \o <<n % 256>>

RECURSIVE BEValue(_)
\* The number a big-endian byte string holds (small values only).
BEValue(b) ==
    IF b = <<>> THEN 0 ELSE 256 * BEValue(SubSeq(b, 1, Len(b) - 1)) + b[Len(b)]

AddressLen == 20
HashLen == 32
U8Len == 1
U64Len == 8
U256Len == 32

ZeroAddress == Repeat(0, AddressLen)
U256Zero == <<>>
EmptyBytes == <<>>

RECURSIVE TrimLeadingZeros(_)
TrimLeadingZeros(b) ==
    IF b # <<>> /\ b[1] = 0 THEN TrimLeadingZeros(Tail(b)) ELSE b

\* The conversion as a wrapping cast: the low 64 bits, never an error.
U256TryIntoU64_Wrapping(g) ==
    IF Len(g) <= U64Len THEN Ok(g)
    ELSE Ok(TrimLeadingZeros(SubSeq(g, Len(g) - U64Len + 1, Len(g))))

\* TryFrom<U256> for u64: fails when the value needs more than 8 bytes.
U256TryIntoU64(g) == IF Len(g) <= U64Len THEN Ok(g) ELSE Err("overflow")

RECURSIVE KeccakFold(_)
\* A 16-bit fold of a byte string, halving it (the depth stays logarithmic).
KeccakFold(b) ==
    IF Len(b) = 0 THEN 7
    ELSE IF Len(b) = 1 THEN b[1] + 11
    ELSE LET half == Len(b) \div 2
         IN  (KeccakFold(SubSeq(b, 1, half)) * 257
              + KeccakFold(SubSeq(b, half + 1, Len(b))) * 3 + Len(b)) % 65521

\* primitives::keccak256: a 32-byte digest fixed by the bytes hashed.  The
\* permutation itself is not modelled: the digest is spread from a 16-bit fold
\* of the input, which separates the inputs the model hashes.
Keccak256(b) ==
    LET f == KeccakFold(b)
    IN  [i \in 1..HashLen |-> (f \div (IF i % 2 = 0 THEN 1 ELSE 256) + 37 * i) % 256]

-----------------------------------------------------------------------------
(* alloy_rlp encoding *)

\* Header::encode: the prefix of a string or list payload of `len` bytes.
RlpHeader(list, len) ==
    IF len < 56
    THEN <<(IF list THEN 192 ELSE 128) + len>>
    ELSE LET be == BEBytes(len)
         IN <<(IF list THEN 247 ELSE 183) + Len(be)>> \o be

\* Encodable for [u8] / Bytes / FixedBytes<N> / Address: a byte below 0x80
\* stands for itself, anything else follows its header.
RlpBytes(b) ==
    IF Len(b) = 1 /\ b[1] < 128 THEN b ELSE RlpHeader(FALSE, Len(b)) \o b

\* Encodable for u8 / u64 / U256: the minimal big-endian bytes as a string.
RlpUint(n) == RlpBytes(n)

RECURSIVE Concat(_)
Concat(ss) == IF ss = <<>> THEN <<>> ELSE Head(ss) \o Concat(Tail(ss))

\* derive(RlpEncodable): the list header over the fields' encodings in
\* declaration order.
RlpList(items) ==
    LET payload == Concat(items) IN RlpHeader(TRUE, Len(payload)) \o payload


-----------------------------------------------------------------------------
(* alloy_rlp decoding.  A decoder reads from the front of a buffer and      *)
(* returns the value with the rest of the buffer, or the error.             *)

DecOk(v, rest) == [ok |-> TRUE, val |-> v, rest |-> rest]
DecErr(e) == [ok |-> FALSE, err |-> e]

\* Header::decode's last check: the payload must be in the buffer.
fits(h) ==
    IF h.ok /\ Len(h.rest) < h.val.payload_length THEN DecErr("InputTooShort") ELSE h

Drop(buf, n) == SubSeq(buf, n + 1, Len(buf))
Take(buf, n) == SubSeq(buf, 1, n)

\* Header::decode.  val is [list, payload_length]; a single byte below 0x80 is
\* its own payload and is not consumed.
HeaderDecode(buf) ==
    IF buf = <<>> THEN DecErr("InputTooShort")
    ELSE
    LET b == buf[1]
        body == Drop(buf, 1)
    IN  IF b < 128 THEN
            fits(DecOk([list |-> FALSE, payload_length |-> 1], buf))
        ELSE IF b <= 183 THEN
            IF b - 128 = 1 /\ body = <<>> THEN DecErr("InputTooShort")
            ELSE IF b - 128 = 1 /\ body[1] < 128 THEN DecErr("NonCanonicalSingleByte")
            ELSE fits(DecOk([list |-> FALSE, payload_length |-> b - 128], body))
        ELSE IF b <= 191 \/ b >= 248 THEN
            LET list == b >= 248
                len_of_len == b - (IF list THEN 247 ELSE 183)
            IN  IF Len(body) < len_of_len THEN DecErr("InputTooShort")
                ELSE IF body[1] = 0 THEN DecErr("LeadingZero")
                \* a length of four bytes or more is past the end of any buffer here
                ELSE IF len_of_len > 3 THEN DecErr("InputTooShort")
                ELSE LET payload_length == BEValue(Take(body, len_of_len))
                     IN IF payload_length < 56 THEN DecErr("NonCanonicalSize")
                        ELSE fits(DecOk([list |-> list, payload_length |-> payload_length],
                                        Drop(body, len_of_len)))
        ELSE fits(DecOk([list |-> TRUE, payload_length |-> b - 192], body))

\* Header::decode_bytes(buf, false): the payload of a string.
DecodeBytes(buf) ==
    LET h == HeaderDecode(buf)
    IN  IF ~h.ok THEN h
        ELSE IF h.val.list THEN DecErr("UnexpectedList")
        ELSE DecOk(Take(h.rest, h.val.payload_length), Drop(h.rest, h.val.payload_length))

\* Decodable for u8 / u64 / U256 (width in bytes): no leading zero, no overflow.
DecodeUint(buf, width) ==
    LET d == DecodeBytes(buf)
    IN  IF ~d.ok THEN d
        ELSE IF Len(d.val) > width THEN DecErr("Overflow")
        ELSE IF d.val # <<>> /\ d.val[1] = 0 THEN DecErr("LeadingZero")
        ELSE d

\* Decodable for Address / FixedBytes<32>: exactly n bytes.
DecodeFixed(buf, n) ==
    LET d == DecodeBytes(buf)
    IN  IF ~d.ok THEN d
        ELSE IF Len(d.val) # n THEN DecErr("UnexpectedLength")
        ELSE d

DecodeField(buf, ty) ==
    CASE ty = "u8" -> DecodeUint(buf, U8Len)
      [] ty = "u64" -> DecodeUint(buf, U64Len)
      [] ty = "U256" -> DecodeUint(buf, U256Len)
      [] ty = "Address" -> DecodeFixed(buf, AddressLen)
      [] ty = "B256" -> DecodeFixed(buf, HashLen)
      [] ty = "Bytes" -> DecodeBytes(buf)

\* A result that is read more than once is bound by a quantifier over the
\* singleton of its value (OneOf picks the one element of such a set), so
\* that it is computed once however TLC evaluates a LET.
OneOf(S) == CHOOSE x \in S : TRUE

RECURSIVE DecodeFields(_, _)
\* The fields of a derive(RlpDecodable) struct, in declaration order, each read
\* from where the one before stopped; the first error ends the decoding.
DecodeFields(buf, tys) ==
    IF tys = <<>> THEN DecOk(<<>>, buf)
    ELSE OneOf({ IF ~d.ok THEN d
                 ELSE OneOf({ IF ~more.ok THEN more
                              ELSE DecOk(<<d.val>> \o more.val, more.rest)
                              : more \in {DecodeFields(d.rest, Tail(tys))} })
                 : d \in {DecodeField(buf, Head(tys))} })

-----------------------------------------------------------------------------
(* primitives::Signature: the parity in one of its three forms, r and s.    *)

ParityOf(kind, n) == [kind |-> kind, n |-> n]

\* TryFrom<u64> for Parity.
ParityTryFromU64(v) ==
    IF v \in {0, 1} THEN Ok(ParityOf("Parity", v))
    ELSE IF v \in {27, 28} THEN Ok(ParityOf("NonEip155", v - 27))
    ELSE IF v >= 35 THEN Ok(ParityOf("Eip155", v))
    ELSE Err("InvalidParity")

\* Parity::y_parity as 0 / 1.
YParity(p) == IF p.kind = "Eip155" THEN (p.n - 35) % 2 ELSE p.n

\* Signature::from_rs_and_parity(r, s, v).
SignatureFromRsAndParity(r, s, v) ==
    LET p == ParityTryFromU64(v)
    IN  IF p.kind = "Ok" THEN Ok([v |-> p.val, r |-> r, s |-> s]) ELSE p

\* sig.v().recid().to_byte(), sig.r(), sig.s()
signature_to_vrs(sig) == <<BEBytes(YParity(sig.v)), sig.r, sig.s>>

-----------------------------------------------------------------------------
(* ConfidentialComputeRecord *)

\* from_tx_request with gas_price and value taken from each other's field.
from_tx_request_Swapped(tx_req, execution_node) ==
    IF ~tx_req.gas.some THEN Err("Missing gas field")
    ELSE LET gas == U256TryIntoU64(tx_req.gas.val)
         IN  IF gas.kind # "Ok" THEN Err("Gas overflow")
             ELSE IF ~tx_req.chain_id.some THEN Err("Missing chain_id field")
             ELSE Ok([ input |-> UnwrapOr(tx_req.input.input, EmptyBytes),
                       gas_price |-> UnwrapOr(tx_req.value, U256Zero),
                       value |-> UnwrapOr(tx_req.gas_price, U256Zero),
                       to |-> UnwrapOr(tx_req.to, ZeroAddress),
                       nonce |-> UnwrapOr(tx_req.nonce, <<>>),
                       kettle_address |-> execution_node,
                       chain_id |-> tx_req.chain_id.val,
                       gas |-> gas.val,
                       confidential_inputs_hash |-> None,
                       signature |-> None ])

\* ConfidentialComputeRecord::from_tx_request
from_tx_request(tx_req, execution_node) ==
    IF ~tx_req.gas.some THEN Err("Missing gas field")
    ELSE LET gas == U256TryIntoU64(tx_req.gas.val)
         IN  IF gas.kind # "Ok" THEN Err("Gas overflow")
             ELSE IF ~tx_req.chain_id.some THEN Err("Missing chain_id field")
             ELSE Ok([ input |-> UnwrapOr(tx_req.input.input, EmptyBytes),
                       gas_price |-> UnwrapOr(tx_req.gas_price, U256Zero),
                       value |-> UnwrapOr(tx_req.value, U256Zero),
                       to |-> UnwrapOr(tx_req.to, ZeroAddress),
                       nonce |-> UnwrapOr(tx_req.nonce, <<>>),
                       kettle_address |-> execution_node,
                       chain_id |-> tx_req.chain_id.val,
                       gas |-> gas.val,
                       confidential_inputs_hash |-> None,
                       signature |-> None ])

\* set_confidential_inputs_hash that drops a signature made over another digest.
set_confidential_inputs_hash_DropsSig(self, confidential_inputs_hash) ==
    [self EXCEPT !.confidential_inputs_hash = Some(confidential_inputs_hash),
                 !.signature = None]

set_confidential_inputs_hash(self, confidential_inputs_hash) ==
    [self EXCEPT !.confidential_inputs_hash = Some(confidential_inputs_hash)]

set_sig(self, signature) == [self EXCEPT !.signature = Some(signature)]

\* has_missing_field with "and" for "or".
has_missing_field_BothUnset(self) ==
    ~self.confidential_inputs_hash.some /\ ~self.signature.some

has_missing_field(self) ==
    ~self.confidential_inputs_hash.some \/ ~self.signature.some

\* From<&ConfidentialComputeRecord> for CRecordRLP: Ok(the wire shape), or the
\* panic of the first expect that finds None.
CRecordRLPFrom(ccr) ==
    IF ~ccr.signature.some THEN Panic("Missing signature field")
    ELSE IF ~ccr.confidential_inputs_hash.some
         THEN Panic("Missing confidential_inputs_hash")
    ELSE LET vrs == signature_to_vrs(ccr.signature.val)
         IN  Ok([ nonce |-> ccr.nonce,
                  gas_price |-> ccr.gas_price,
                  gas |-> ccr.gas,
                  to |-> ccr.to,
                  value |-> ccr.value,
                  data |-> ccr.input,
                  execution_node |-> ccr.kettle_address,
                  confidential_inputs_hash |-> ccr.confidential_inputs_hash.val,
                  chain_id |-> ccr.chain_id,
                  v |-> vrs[1], r |-> vrs[2], s |-> vrs[3] ])

\* Into<ConfidentialComputeRecord> for CRecordRLP
CRecordRLPInto(self) ==
    LET sig == SignatureFromRsAndParity(self.r, self.s, BEValue(self.v))
    IN  IF sig.kind # "Ok" THEN Panic("Invalid signature")
        ELSE Ok([ nonce |-> self.nonce,
                  gas_price |-> self.gas_price,
                  gas |-> self.gas,
                  to |-> self.to,
                  value |-> self.value,
                  input |-> self.data,
                  kettle_address |-> self.execution_node,
                  chain_id |-> self.chain_id,
                  confidential_inputs_hash |-> Some(self.confidential_inputs_hash),
                  signature |-> Some(sig.val) ])

\* The Record's wire fields with r and s exchanged.
CRecordRLPItems_SBeforeR(self) ==
    << RlpUint(self.nonce), RlpUint(self.gas_price), RlpUint(self.gas),
       RlpBytes(self.to), RlpUint(self.value), RlpBytes(self.data),
       RlpBytes(self.execution_node), RlpBytes(self.confidential_inputs_hash),
       RlpUint(self.chain_id), RlpUint(self.v), RlpUint(self.s), RlpUint(self.r) >>

\* derive(RlpEncodable) for CRecordRLP: its fields in declaration order.
CRecordRLPItems(self) ==
    << RlpUint(self.nonce), RlpUint(self.gas_price), RlpUint(self.gas),
       RlpBytes(self.to), RlpUint(self.value), RlpBytes(self.data),
       RlpBytes(self.execution_node), RlpBytes(self.confidential_inputs_hash),
       RlpUint(self.chain_id), RlpUint(self.v), RlpUint(self.r), RlpUint(self.s) >>

CRecordRLPEncode(self) == RlpList(CRecordRLPItems(self))

\* The field types of CRecordRLP, in declaration order.
CRecordRLPTypes ==
    << "u64", "U256", "u64", "Address", "U256", "Bytes",
       "Address", "B256", "u64", "u8", "U256", "U256" >>

\* derive(RlpDecodable), before the fields: the header of a list.
DecodeListHeader(buf) ==
    LET h == HeaderDecode(buf)
    IN  IF ~h.ok THEN h
        ELSE IF ~h.val.list THEN DecErr("UnexpectedString")
        ELSE h

\* derive(RlpDecodable), after the fields (f, read from h.rest): they must
\* have consumed exactly the payload the header h announced.
DecodeListEnd(h, fields) ==
    OneOf({ IF ~f.ok THEN f
            ELSE IF Len(h.rest) - Len(f.rest) # h.val.payload_length
                 THEN DecErr("ListLengthMismatch")
            ELSE f
            : f \in {fields} })

\* derive(RlpDecodable) for CRecordRLP
CRecordRLPDecode(buf) ==
    OneOf({ IF ~d.ok THEN d
            ELSE DecOk([ nonce |-> d.val[1], gas_price |-> d.val[2], gas |-> d.val[3],
                         to |-> d.val[4], value |-> d.val[5], data |-> d.val[6],
                         execution_node |-> d.val[7],
                         confidential_inputs_hash |-> d.val[8], chain_id |-> d.val[9],
                         v |-> d.val[10], r |-> d.val[11], s |-> d.val[12] ], d.rest)
            : d \in { OneOf({ IF h.ok
                               THEN DecodeListEnd(h, DecodeFields(h.rest, CRecordRLPTypes))
                               ELSE h
                               : h \in {DecodeListHeader(buf)} }) } })

-----------------------------------------------------------------------------
(* ConfidentialComputeRequest *)

CONFIDENTIAL_COMPUTE_RECORD_TYPE == 66
CONFIDENTIAL_COMPUTE_REQUEST_TYPE == 67
\* Decodable2718::extract_type_byte: a first byte up to 0x7f is a type byte.
TX_TYPE_BYTE_MAX == 127

\* new that hands back the Record without the signature it carried.
new_Unsigned(confidential_compute_record, confidential_inputs) ==
    LET ci_hash == Keccak256(confidential_inputs)
    IN  [ confidential_compute_record |->
              [set_confidential_inputs_hash(confidential_compute_record, ci_hash)
                   EXCEPT !.signature = None],
          confidential_inputs |-> confidential_inputs ]

\* new that leaves a digest the Record already has.
new_KeepDigest(confidential_compute_record, confidential_inputs) ==
    [ confidential_compute_record |->
          IF confidential_compute_record.confidential_inputs_hash.some
          THEN confidential_compute_record
          ELSE set_confidential_inputs_hash(confidential_compute_record,
                                            Keccak256(confidential_inputs)),
      confidential_inputs |-> confidential_inputs ]

\* ConfidentialComputeRequest::new
new(confidential_compute_record, confidential_inputs) ==
    LET ci_hash == Keccak256(confidential_inputs)
    IN  [ confidential_compute_record |->
              set_confidential_inputs_hash(confidential_compute_record, ci_hash),
          confidential_inputs |-> confidential_inputs ]

\* From<&ConfidentialComputeRequest> for CRequestRLP
CRequestRLPFrom(ccr) ==
    LET r == CRecordRLPFrom(ccr.confidential_compute_record)
    IN  IF r.kind # "Ok" THEN r
        ELSE Ok([ request |-> r.val,
                  confidential_inputs |-> ccr.confidential_inputs ])

\* Into<ConfidentialComputeRequest> for CRequestRLP
CRequestRLPInto(self) ==
    LET cc_record == CRecordRLPInto(self.request)
    IN  IF cc_record.kind # "Ok" THEN cc_record
        ELSE Ok([ confidential_compute_record |-> cc_record.val,
                  confidential_inputs |-> self.confidential_inputs ])

\* derive(RlpEncodable) for CRequestRLP { request, confidential_inputs }
CRequestRLPItems(self) ==
    << CRecordRLPEncode(self.request), RlpBytes(self.confidential_inputs) >>

CRequestRLPEncode(self) == RlpList(CRequestRLPItems(self))

\* derive(RlpDecodable) for CRequestRLP
CRequestRLPFields(buf) ==
    OneOf({ IF ~rq.ok THEN rq
            ELSE OneOf({ IF ~ci.ok THEN ci
                         ELSE DecOk([ request |-> rq.val,
                                      confidential_inputs |-> ci.val ], ci.rest)
                         : ci \in {DecodeBytes(rq.rest)} })
            : rq \in {CRecordRLPDecode(buf)} })

CRequestRLPDecode(buf) ==
    OneOf({ IF h.ok THEN DecodeListEnd(h, CRequestRLPFields(h.rest)) ELSE h
            : h \in {DecodeListHeader(buf)} })

\* The signing fields with the digest computed anew from the raw confidential
\* inputs.
CRequestHashParamsFrom_RawInputs(ccr) ==
    LET rec == ccr.confidential_compute_record
    IN  Ok([ execution_node |-> rec.kettle_address,
             confidential_inputs_hash |-> Keccak256(ccr.confidential_inputs),
             nonce |-> rec.nonce,
             gas_price |-> rec.gas_price,
             gas |-> rec.gas,
             to |-> rec.to,
             value |-> rec.value,
             data |-> rec.input ])

\* From<&ConfidentialComputeRequest> for CRequestHashParams
CRequestHashParamsFrom(ccr) ==
    LET rec == ccr.confidential_compute_record
    IN  IF ~rec.confidential_inputs_hash.some
        THEN Panic("Missing confidential_inputs_hash")
        ELSE Ok([ execution_node |-> rec.kettle_address,
                  confidential_inputs_hash |-> rec.confidential_inputs_hash.val,
                  nonce |-> rec.nonce,
                  gas_price |-> rec.gas_price,
                  gas |-> rec.gas,
                  to |-> rec.to,
                  value |-> rec.value,
                  data |-> rec.input ])

\* The signing fields with the recipient and the execution node exchanged.
CRequestHashParamsItems_ToFirst(self) ==
    << RlpBytes(self.to), RlpBytes(self.confidential_inputs_hash),
       RlpUint(self.nonce), RlpUint(self.gas_price), RlpUint(self.gas),
       RlpBytes(self.execution_node), RlpUint(self.value), RlpBytes(self.data) >>

\* derive(RlpEncodable) for CRequestHashParams: its fields in declaration order.
CRequestHashParamsItems(self) ==
    << RlpBytes(self.execution_node), RlpBytes(self.confidential_inputs_hash),
       RlpUint(self.nonce), RlpUint(self.gas_price), RlpUint(self.gas),
       RlpBytes(self.to), RlpUint(self.value), RlpBytes(self.data) >>

CRequestHashParamsEncode(self) == RlpList(CRequestHashParamsItems(self))

\* encode_with_prefix(prefix, item), given item's encoding
encode_with_prefix(prefix, item) == <<prefix>> \o item

\* ConfidentialComputeRequest::rlp_encode
rlp_encode(self) ==
    IF has_missing_field(self.confidential_compute_record)
    THEN Err("Missing fields")
    ELSE LET rlp == CRequestRLPFrom(self)
         IN  IF rlp.kind # "Ok" THEN rlp
             ELSE Ok(encode_with_prefix(CONFIDENTIAL_COMPUTE_REQUEST_TYPE,
                                        CRequestRLPEncode(rlp.val)))

\* SignableTransaction::encode_for_signing: what it writes to `out`
encode_for_signing(self) ==
    LET params == CRequestHashParamsFrom(self)
    IN  IF params.kind # "Ok" THEN params
        ELSE Ok(<<CONFIDENTIAL_COMPUTE_RECORD_TYPE>>
                \o CRequestHashParamsEncode(params.val))

\* ConfidentialComputeRequest::hash
hash(self) ==
    LET params == CRequestHashParamsFrom(self)
    IN  IF params.kind # "Ok" THEN params
        ELSE Ok(Keccak256(encode_with_prefix(CONFIDENTIAL_COMPUTE_RECORD_TYPE,
                                             CRequestHashParamsEncode(params.val))))

\* Encodable2718::encode_2718: what it writes to `out`
encode_2718(self) ==
    LET rlp == CRequestRLPFrom(self)
    IN  IF rlp.kind # "Ok" THEN rlp
        ELSE Ok(<<CONFIDENTIAL_COMPUTE_REQUEST_TYPE>> \o CRequestRLPEncode(rlp.val))

\* set_chain_id that leaves the chain id as it was.
set_chain_id_Ignored(self, chain_id) == self

\* SignableTransaction::set_chain_id
set_chain_id(self, chain_id) ==
    [self EXCEPT !.confidential_compute_record.chain_id = chain_id]

\* Encodable::length of a field: the number of bytes its encoding takes.
RlpBytesLength(b) == Len(RlpBytes(b))
RlpUintLength(n) == Len(RlpUint(n))

\* CRecordRLP::fields_len
CRecordRLPFieldsLen(self) ==
      RlpUintLength(self.nonce)
    + RlpUintLength(self.gas_price)
    + RlpUintLength(self.gas)
    + RlpBytesLength(self.to)
    + RlpUintLength(self.value)
    + RlpBytesLength(self.data)
    + RlpBytesLength(self.execution_node)
    + RlpBytesLength(self.confidential_inputs_hash)
    + RlpUintLength(self.chain_id)
    + RlpUintLength(self.v)
    + RlpUintLength(self.r)
    + RlpUintLength(self.s)

\* CRequestRLP::fields_len
CRequestRLPFieldsLen(self) ==
      CRecordRLPFieldsLen(self.request)
    + RlpBytesLength(self.confidential_inputs)

\* CRequestHashParams::fields_len (gas is not among the lengths it adds)
CRequestHashParamsFieldsLen(self) ==
      RlpBytesLength(self.execution_node)
    + RlpBytesLength(self.confidential_inputs_hash)
    + RlpUintLength(self.nonce)
    + RlpUintLength(self.gas_price)
    + RlpBytesLength(self.to)
    + RlpUintLength(self.value)
    + RlpBytesLength(self.data)

\* Encodable2718::encode_2718_len
encode_2718_len(self) ==
    LET rlp == CRequestRLPFrom(self)
    IN  IF rlp.kind # "Ok" THEN rlp ELSE Ok(CRequestRLPFieldsLen(rlp.val))

\* SignableTransaction::payload_len_for_signature
payload_len_for_signature(self) ==
    LET chain_id == BEValue(self.confidential_compute_record.chain_id)
        params == CRequestHashParamsFrom(self)
    IN  IF params.kind # "Ok" THEN params
        ELSE Ok(CRequestHashParamsFieldsLen(params.val) + chain_id + 2)

\* typed_decode that also takes the signing prefix 0x42 for a Request.
typed_decode_EitherType(ty, buf) ==
    IF ty \in {CONFIDENTIAL_COMPUTE_REQUEST_TYPE, CONFIDENTIAL_COMPUTE_RECORD_TYPE}
    THEN OneOf({ IF ~crequest_prerlp.ok THEN Err(crequest_prerlp.err)
                 ELSE CRequestRLPInto(crequest_prerlp.val)
                 : crequest_prerlp \in {CRequestRLPDecode(buf)} })
    ELSE Err("Only ConfidentialComputeRequest")

\* Decodable2718::typed_decode
typed_decode(ty, buf) ==
    IF ty = CONFIDENTIAL_COMPUTE_REQUEST_TYPE
    THEN OneOf({ IF ~crequest_prerlp.ok THEN Err(crequest_prerlp.err)
                 ELSE CRequestRLPInto(crequest_prerlp.val)
                 : crequest_prerlp \in {CRequestRLPDecode(buf)} })
    ELSE Err("Only ConfidentialComputeRequest")

\* Decodable2718::fallback_decode
fallback_decode(buf) == Err("Only ConfidentialComputeRequest")

\* Decodable2718::decode_2718: the provided method, which dispatches on the
\* type byte to the two methods above.
decode_2718(buf) ==
    IF buf # <<>> /\ buf[1] <= TX_TYPE_BYTE_MAX
    THEN typed_decode(buf[1], Drop(buf, 1))
    ELSE fallback_decode(buf)

-----------------------------------------------------------------------------
(* network::SuaveSigner.  The wrapped TxSigner is given by the results its   *)
(* successive invocations return; it reads the transaction and leaves it as  *)
(* it is (chain_id() is always Some, so a signer has no chain id to fill in).*)

\* self.0.sign_transaction(tx).await: the result of the n-th invocation.
TxSignerSignTransaction(self, n) == self[n]

\* sign_transaction that hands back the clone without the signature.
sign_transaction_Unsigned(self, tx) ==
    LET r == TxSignerSignTransaction(self, 1)
        signed(sig) == [tx EXCEPT !.confidential_compute_record = set_sig(@, sig)]
    IN  IF r.kind = "Ok"
        THEN [ tx |-> signed(r.val), res |-> Ok(tx), calls |-> 1 ]
        ELSE [ tx |-> tx, res |-> r, calls |-> 1 ]

\* sign_transaction that asks the wrapped signer once more after an error.
sign_transaction_Retry(self, tx) ==
    LET r == TxSignerSignTransaction(self, 1)
        again == TxSignerSignTransaction(self, 2)
        signed(sig) == [tx EXCEPT !.confidential_compute_record = set_sig(@, sig)]
    IN  IF r.kind = "Ok"
        THEN [ tx |-> signed(r.val), res |-> Ok(signed(r.val)), calls |-> 1 ]
        ELSE IF again.kind = "Ok"
        THEN [ tx |-> signed(again.val), res |-> Ok(signed(again.val)), calls |-> 2 ]
        ELSE [ tx |-> tx, res |-> again, calls |-> 2 ]

\* SuaveSigner::sign_transaction(&self, tx: &mut ConfidentialComputeRequest):
\* tx as the call leaves it, the result, and how often the wrapped signer ran.
sign_transaction(self, tx) ==
    LET r == TxSignerSignTransaction(self, 1)
        signed(sig) == [tx EXCEPT !.confidential_compute_record = set_sig(@, sig)]
    IN  IF r.kind = "Ok"
        THEN [ tx |-> signed(r.val), res |-> Ok(signed(r.val)), calls |-> 1 ]
        ELSE [ tx |-> tx, res |-> r, calls |-> 1 ]

\* NetworkSigner::sign_transaction(&self, tx: ConfidentialComputeRequest): tx
\* is the method's own value (`let mut tx = tx`), dropped when it returns.
NetworkSignerSignTransaction(self, tx) == sign_transaction(self, tx)

-----------------------------------------------------------------------------
(* The inputs the calls are made with *)

Opt(S) == {None} \cup {Some(x) : x \in S}

\* Byte strings up to MaxInputLen over the two bytes either side of RLP's
\* single-byte rule (0x7f stands for itself, 0x80 needs a header).
InputAlphabet == {127, 128}
ByteStrings == UNION {[1..n -> InputAlphabet] : n \in 0..MaxInputLen}

\* The addresses, amounts and signature scalars of the repository's tests.
NodeA == <<125,131,228,43,33,75,117,191,31,62,87,173,195,65,93,165,115,217,123,255>>
AddrTo == <<120,6,117,215,30,190,61,62,240,95,174,55,144,99,7,17,71,221,58,238>>
NonceA == <<34>>
GasPriceA == <<59,154,202,0>>
ValueA == <<34,51>>
ChainA == <<6,121,50>>
GasFits == <<15,66,64>>
\* u64::MAX, and the first U256 that is no u64.
GasMaxU64 == Repeat(255, U64Len)
GasOverflow == <<1>> \o Repeat(0, U64Len)
SigR == <<21,103,195,28,75,235,205,16,97,237,186,242,45,215,63,212,
          15,243,15,154,59,164,82,80,55,242,59,45,198,30,52,115>>
SigS == <<45,206,105,38,39,148,164,153,213,37,197,213,142,221,227,62,
          6,165,132,123,77,50,29,57,107,116,55,0,162,253,113,168>>

\* Every TransactionRequest over these values: each field absent or present.
TxRequests ==
    [ nonce : Opt({NonceA}), to : Opt({AddrTo}),
      gas : Opt({GasFits, GasMaxU64, GasOverflow}),
      gas_price : Opt({GasPriceA}), value : Opt({ValueA}),
      input : [input : Opt(ByteStrings)], chain_id : Opt({ChainA}) ]

TxFull ==
    [ nonce |-> Some(NonceA), to |-> Some(AddrTo), gas |-> Some(GasFits),
      gas_price |-> Some(GasPriceA), value |-> Some(ValueA),
      input |-> [input |-> Some(<<128>>)], chain_id |-> Some(ChainA) ]
TxMinimal ==
    [ nonce |-> None, to |-> None, gas |-> Some(GasFits), gas_price |-> None,
      value |-> None, input |-> [input |-> None], chain_id |-> Some(ChainA) ]
\* The requests a Request is built from: every field given, only the two
\* mandatory ones given, and one of each kind from_tx_request refuses.
TxProfiles ==
    { TxFull, TxMinimal, [TxFull EXCEPT !.gas = None],
      [TxFull EXCEPT !.gas = Some(GasOverflow)], [TxFull EXCEPT !.chain_id = None] }

\* The signatures from_rs_and_parity builds from v = 0, 1, 28 and 37: the
\* three forms of Parity.
SigVs == {0, 1, 28, 37}
Signatures == {SignatureFromRsAndParity(SigR, SigS, v).val : v \in SigVs}

\* A digest handed to set_confidential_inputs_hash directly.
DigestA == Repeat(171, HashLen)

-----------------------------------------------------------------------------
(* The calls.  ret records the last call; a panic ends the run. *)

Call(op, arg, res) == [op |-> op, arg |-> arg, res |-> res]
Unit == Ok(<<>>)
Running == ret.res.kind # "Panic"

\* The Record the setters act on: the Request's once it is built.
Target == IF request.some THEN request.val.confidential_compute_record ELSE record.val

SetTarget(rec) ==
    IF request.some
    THEN /\ request' = Some([request.val EXCEPT !.confidential_compute_record = rec])
         /\ UNCHANGED record
    ELSE /\ record' = Some(rec)
         /\ UNCHANGED request

Init ==
    /\ record = None
    /\ request = None
    /\ ret = Call("init", <<>>, Unit)

FromTxRequestOver(txs, nodes) ==
    /\ Running /\ ~record.some /\ ~request.some
    /\ \E tx_req \in txs, execution_node \in nodes :
         LET r == from_tx_request(tx_req, execution_node)
         IN  /\ record' = (IF r.kind = "Ok" THEN Some(r.val) ELSE None)
             /\ ret' = Call("from_tx_request",
                            [tx_req |-> tx_req, execution_node |-> execution_node], r)
    /\ UNCHANGED request

FromTxRequest == FromTxRequestOver(TxProfiles, {NodeA})

FromAnyTxRequest == FromTxRequestOver(TxRequests, {NodeA, AddrTo})

SetConfidentialInputsHash ==
    /\ Running /\ record.some
    /\ \E h \in {DigestA} :
         /\ SetTarget(set_confidential_inputs_hash(Target, h))
         /\ ret' = Call("set_confidential_inputs_hash", h, Unit)

SetSig ==
    /\ Running /\ record.some
    /\ \E sig \in Signatures :
         /\ SetTarget(set_sig(Target, sig))
         /\ ret' = Call("set_sig", sig, Unit)

HasMissingField ==
    /\ Running /\ record.some
    /\ ret' = Call("has_missing_field", <<>>, Ok(has_missing_field(Target)))
    /\ UNCHANGED <<record, request>>

RequestNew ==
    /\ Running /\ record.some /\ ~request.some
    /\ \E confidential_inputs \in ByteStrings :
         /\ request' = Some(new(record.val, confidential_inputs))
         /\ ret' = Call("new", confidential_inputs, Unit)
    /\ UNCHANGED record

RlpEncode ==
    /\ Running /\ request.some
    /\ ret' = Call("rlp_encode", <<>>, rlp_encode(request.val))
    /\ UNCHANGED <<record, request>>

Hash ==
    /\ Running /\ request.some
    /\ ret' = Call("hash", <<>>, hash(request.val))
    /\ UNCHANGED <<record, request>>

EncodeForSigning ==
    /\ Running /\ request.some
    /\ ret' = Call("encode_for_signing", <<>>, encode_for_signing(request.val))
    /\ UNCHANGED <<record, request>>

Encode2718 ==
    /\ Running /\ request.some
    /\ ret' = Call("encode_2718", <<>>, encode_2718(request.val))
    /\ UNCHANGED <<record, request>>

\* The recovery bytes and type bytes put on the wire in place of the Request's.
WireVs == {<<>>, <<1>>, <<2>>, <<27>>, <<37>>}
WireTypes == {CONFIDENTIAL_COMPUTE_REQUEST_TYPE, CONFIDENTIAL_COMPUTE_RECORD_TYPE, 2}

\* What decode_2718 is given: the envelope of the (complete) Request as
\* encode_2718 writes it; that envelope with another recovery byte, another
\* type byte, no type byte, its last byte missing, or one byte more; nothing.
WireInputs(req) ==
    LET rlp == CRequestRLPFrom(req).val
        envelope == encode_2718(req).val
        body(v) == CRequestRLPEncode([rlp EXCEPT !.request.v = v])
    IN  {envelope}
        \cup {<<CONFIDENTIAL_COMPUTE_REQUEST_TYPE>> \o body(v) : v \in WireVs}
        \cup {<<ty>> \o body(rlp.request.v) : ty \in WireTypes}
        \cup {Drop(envelope, 1), Take(envelope, Len(envelope) - 1),
              envelope \o <<0>>, <<>>}

Decode2718 ==
    /\ Running /\ request.some
    /\ ~has_missing_field(request.val.confidential_compute_record)
    /\ \E buf \in WireInputs(request.val) :
         ret' = Call("decode_2718", buf, decode_2718(buf))
    /\ UNCHANGED <<record, request>>

\* The chain ids set_chain_id is given: the Record's own and another.
ChainB == <<1>>
ChainIds == {ChainA, ChainB}

SetChainId ==
    /\ Running /\ request.some
    /\ \E chain_id \in ChainIds :
         /\ request' = Some(set_chain_id(request.val, chain_id))
         /\ ret' = Call("set_chain_id", chain_id, Unit)
    /\ UNCHANGED record

PayloadLenForSignature ==
    /\ Running /\ request.some
    /\ ret' = Call("payload_len_for_signature", <<>>,
                   payload_len_for_signature(request.val))
    /\ UNCHANGED <<record, request>>

Encode2718Len ==
    /\ Running /\ request.some
    /\ ret' = Call("encode_2718_len", <<>>, encode_2718_len(request.val))
    /\ UNCHANGED <<record, request>>

\* What one invocation of the wrapped signer returns: a signature, or its error.
SignerError == Err("signer error")
SignerSignature == SignatureFromRsAndParity(SigS, SigR, 1).val
SignerResults == {Ok(SignerSignature), SignerError}
\* A wrapped signer: the results of its first and second invocation.
MaxSignerCalls == 2
Signers == [1..MaxSignerCalls -> SignerResults]

\* NetworkSigner::sign_transaction, given a clone of the Request: the caller's
\* own value is not the method's.  ret also holds the method's tx as the call
\* left it and the number of invocations of the wrapped signer.
Sign ==
    /\ Running /\ request.some
    /\ \E signer \in Signers :
         LET r == NetworkSignerSignTransaction(signer, request.val)
         IN  ret' = [ op |-> "sign_transaction",
                      arg |-> [signer |-> signer, tx |-> request.val],
                      res |-> r.res, tx |-> r.tx, calls |-> r.calls ]
    /\ UNCHANGED <<record, request>>

Next ==
    \/ FromTxRequest
    \/ SetConfidentialInputsHash
    \/ SetSig
    \/ HasMissingField
    \/ RequestNew
    \/ RlpEncode
    \/ Hash
    \/ EncodeForSigning
    \/ Encode2718
    \/ Decode2718

Spec == Init /\ [][Next]_vars

\* Every operation on a Record or a Request, the signer's among them.
NextApi ==
    \/ FromTxRequest
    \/ SetConfidentialInputsHash
    \/ SetSig
    \/ HasMissingField
    \/ RequestNew
    \/ RlpEncode
    \/ Hash
    \/ EncodeForSigning
    \/ Encode2718
    \/ SetChainId
    \/ PayloadLenForSignature
    \/ Encode2718Len
    \/ Sign

SpecApi == Init /\ [][NextApi]_vars

\* Record construction alone, over every TransactionRequest.
NextRecord ==
    \/ FromAnyTxRequest
    \/ SetConfidentialInputsHash
    \/ SetSig
    \/ HasMissingField

SpecRecord == Init /\ [][NextRecord]_vars

-----------------------------------------------------------------------------
(* What the claims are stated over *)

\* The Record of the Request, once there is one.
Rec == request.val.confidential_compute_record

\* The recovery indicator a signature stands for: 0 or 1.
RecoveryIndicator(sig) ==
    IF sig.v.kind = "Eip155" THEN (sig.v.n - 35) % 2 ELSE sig.v.n

\* buf is a list whose payload is exactly the strings `vals`, read as `tys`.
IsListOf(buf, tys, vals) ==
    LET h == HeaderDecode(buf)
        f == DecodeFields(h.rest, tys)
    IN  /\ h.ok /\ h.val.list
        /\ h.val.payload_length = Len(h.rest)
        /\ f.ok /\ f.rest = <<>> /\ f.val = vals

-----------------------------------------------------------------------------
\* C1: decoding the envelope encode_2718 wrote for a complete Request gives
\* back that Request, field for field, whatever its signature value.
C1_RoundTrip ==
    (ret.op = "decode_2718" /\ ret.arg = encode_2718(request.val).val)
        => ret.res = Ok(request.val)

\* C2: has_missing_field is true exactly when the digest or the signature is
\* unset; rlp_encode returns an error exactly then, and the 0x43 envelope as
\* soon as both are set, whatever the order of the calls that set them.
C2_MissingFieldGate ==
    /\ ret.op = "has_missing_field" =>
          ret.res = Ok(~Target.confidential_inputs_hash.some \/ ~Target.signature.some)
    /\ ret.op = "rlp_encode" =>
          IF ~Rec.confidential_inputs_hash.some \/ ~Rec.signature.some
          THEN ret.res.kind = "Err"
          ELSE ret.res.kind = "Ok" /\ ret.res.val[1] = 67

\* rlp_encode has returned the envelope of a Request signed before
\* Request::new set its digest.
C2_Witness ==
    /\ ret.op = "rlp_encode" /\ ret.res.kind = "Ok"
    /\ record.val.signature.some /\ ~record.val.confidential_inputs_hash.some

\* C3: with a gas limit that fits 64 bits and a chain id, from_tx_request
\* returns a Record with digest and signature unset, the execution node given,
\* every field given copied and every field not given at its default.
C3_FromTxRequestOk ==
    ret.op = "from_tx_request" =>
        LET tx == ret.arg.tx_req
            r == ret.res.val
            or(o, d) == IF o.some THEN o.val ELSE d
        IN  (tx.gas.some /\ Len(tx.gas.val) <= 8 /\ tx.chain_id.some) =>
                /\ ret.res.kind = "Ok" /\ record = Some(r)
                /\ ~r.confidential_inputs_hash.some /\ ~r.signature.some
                /\ r.kettle_address = ret.arg.execution_node
                /\ r.gas = tx.gas.val /\ r.chain_id = tx.chain_id.val
                /\ r.to = or(tx.to, [i \in 1..20 |-> 0])
                /\ r.value = or(tx.value, <<>>)
                /\ r.gas_price = or(tx.gas_price, <<>>)
                /\ r.nonce = or(tx.nonce, <<>>)
                /\ r.input = or(tx.input.input, <<>>)

\* from_tx_request has built a Record from a request that gives the largest
\* 64-bit gas limit, a value and a nonce but no recipient and no gas price.
C3_Witness ==
    /\ ret.op = "from_tx_request" /\ ret.res.kind = "Ok"
    /\ ret.arg.tx_req.gas = Some(GasMaxU64)
    /\ ret.arg.tx_req.value.some /\ ret.arg.tx_req.nonce.some
    /\ ~ret.arg.tx_req.to.some /\ ~ret.arg.tx_req.gas_price.some

\* C4: from_tx_request returns an error and no Record when the gas limit is
\* absent ("Missing gas field"), when it is present and needs more than 64
\* bits ("Gas overflow"), and when the chain id is absent ("Missing chain_id
\* field", unless the gas limit is the first field at fault).
C4_FromTxRequestErr ==
    ret.op = "from_tx_request" =>
        LET tx == ret.arg.tx_req
        IN  /\ ~tx.gas.some => ret.res = Err("Missing gas field")
            /\ (tx.gas.some /\ Len(tx.gas.val) > 8) => ret.res = Err("Gas overflow")
            /\ (tx.gas.some /\ Len(tx.gas.val) <= 8 /\ ~tx.chain_id.some)
                  => ret.res = Err("Missing chain_id field")
            /\ ~tx.chain_id.some => ret.res.kind = "Err"
            /\ ret.res.kind = "Err" => record = None

\* from_tx_request has refused a gas limit of 2^64.
C4_Witness ==
    /\ ret.op = "from_tx_request" /\ ret.res = Err("Gas overflow")
    /\ ret.arg.tx_req.gas = Some(GasOverflow) /\ ret.arg.tx_req.chain_id.some

\* C5: Request::new(r, b) returns a Request whose confidential inputs are b and
\* whose Record is r with its digest set to keccak256(b), whether or not r had
\* a digest or a signature already; nothing else of r changes.
C5_NewSetsDigest ==
    ret.op = "new" =>
        /\ request.some
        /\ request.val.confidential_inputs = ret.arg
        /\ Rec.confidential_inputs_hash = Some(Keccak256(ret.arg))
        /\ \A f \in DOMAIN record.val \ {"confidential_inputs_hash"} :
              Rec[f] = record.val[f]

\* Request::new was given a Record that carried a signature and another digest.
C5_Witness ==
    /\ ret.op = "new"
    /\ record.val.signature.some
    /\ record.val.confidential_inputs_hash = Some(DigestA)
    /\ Rec.confidential_inputs_hash # Some(DigestA)

\* The field types of CRequestHashParams as the claims list them.
SigningFieldTypes ==
    << "Address", "B256", "u64", "U256", "u64", "Address", "U256", "Bytes" >>

\* bytes is 0x42, then the list of the eight signing fields of the Request.
IsSigningPreimage(bytes) ==
    /\ bytes[1] = 66 /\ bytes[1] # 67
    /\ IsListOf(Drop(bytes, 1), SigningFieldTypes,
                << Rec.kettle_address, Rec.confidential_inputs_hash.val, Rec.nonce,
                   Rec.gas_price, Rec.gas, Rec.to, Rec.value, Rec.input >>)

\* C6: for a Request with a digest, encode_for_signing writes 0x42 and the list
\* of execution node, digest, nonce, gas price, gas limit, recipient, value and
\* call data, in that order; hash() is keccak256 of those bytes, whose first
\* byte is not the envelope's 0x43.
C6_SigningPreimage ==
    /\ (ret.op = "encode_for_signing" /\ Rec.confidential_inputs_hash.some) =>
          ret.res.kind = "Ok" /\ IsSigningPreimage(ret.res.val)
    /\ (ret.op = "hash" /\ Rec.confidential_inputs_hash.some) =>
          /\ IsSigningPreimage(encode_for_signing(request.val).val)
          /\ ret.res = Ok(Keccak256(encode_for_signing(request.val).val))

\* encode_for_signing has written the preimage of a Request built from a
\* request that gave every field.
C6_Witness ==
    /\ ret.op = "encode_for_signing" /\ ret.res.kind = "Ok"
    /\ Rec.to = AddrTo /\ Rec.kettle_address = NodeA /\ Rec.input # <<>>

\* C7: the signing hash is fixed by the eight signing fields: a Request with
\* other confidential input bytes, another chain id or another signature (or
\* none), and the same eight fields, has the same hash.
C7_HashOfSigningFieldsOnly ==
    (ret.op = "hash" /\ ret.res.kind = "Ok") =>
        \A b \in ByteStrings, c \in {ChainA, <<1>>}, sg \in Opt(Signatures) :
            hash([ confidential_compute_record |->
                       [Rec EXCEPT !.chain_id = c, !.signature = sg],
                   confidential_inputs |-> b ]) = ret.res

\* hash() has run on a signed Request whose digest is not that of its bytes.
C7_Witness ==
    /\ ret.op = "hash" /\ ret.res.kind = "Ok"
    /\ Rec.signature.some
    /\ Rec.confidential_inputs_hash # Some(Keccak256(request.val.confidential_inputs))

\* The twelve Record fields as the envelope carries them.
WireRecordFields ==
    << Rec.nonce, Rec.gas_price, Rec.gas, Rec.to, Rec.value, Rec.input,
       Rec.kettle_address, Rec.confidential_inputs_hash.val, Rec.chain_id,
       BEBytes(RecoveryIndicator(Rec.signature.val)),
       Rec.signature.val.r, Rec.signature.val.s >>

Complete == Rec.confidential_inputs_hash.some /\ Rec.signature.some

\* C8 as stated: the envelope of a complete Request is 0x43 and one list of
\* thirteen fields, the twelve Record fields and the confidential inputs.
C8_FlatThirteenFields ==
    (ret.op \in {"rlp_encode", "encode_2718"} /\ Complete) =>
        /\ ret.res.kind = "Ok" /\ ret.res.val[1] = 67
        /\ IsListOf(Drop(ret.res.val, 1), CRecordRLPTypes \o <<"Bytes">>,
                    WireRecordFields \o <<request.val.confidential_inputs>>)

\* C8, amended: the envelope of a complete Request is 0x43 and a list of two
\* items: the list of the twelve Record fields (nonce, gas price, gas limit,
\* recipient, value, call data, execution node, digest, chain id, recovery
\* indicator, r, s), and the confidential inputs.
C8_NestedEnvelope ==
    (ret.op \in {"rlp_encode", "encode_2718"} /\ Complete) =>
        /\ ret.res.kind = "Ok" /\ ret.res.val[1] = 67
        /\ LET outer == HeaderDecode(Drop(ret.res.val, 1))
               inner == HeaderDecode(outer.rest)
               span == Len(outer.rest) - Len(inner.rest) + inner.val.payload_length
               inputs == DecodeBytes(Drop(outer.rest, span))
           IN  /\ outer.ok /\ outer.val.list
               /\ outer.val.payload_length = Len(outer.rest)
               /\ inner.ok
               /\ IsListOf(Take(outer.rest, span), CRecordRLPTypes, WireRecordFields)
               /\ inputs.ok /\ inputs.rest = <<>>
               /\ inputs.val = request.val.confidential_inputs

\* encode_2718 has written the envelope of a Request with confidential inputs
\* and a signature of odd parity.
C8_Witness ==
    /\ ret.op = "encode_2718" /\ ret.res.kind = "Ok"
    /\ request.val.confidential_inputs # <<>>
    /\ RecoveryIndicator(Rec.signature.val) = 1

\* C9: decode_2718 returns an error, and no Request, for every input whose type
\* byte is not 0x43 (0x42 among them) and for every input without a type byte.
C9_RejectsOtherTypes ==
    (ret.op = "decode_2718" /\ (ret.arg = <<>> \/ ret.arg[1] # 67)) =>
        ret.res.kind = "Err"

\* decode_2718 has refused a well-formed Request body under the type byte 0x42.
C9_Witness ==
    /\ ret.op = "decode_2718" /\ ret.arg # <<>> /\ ret.arg[1] = 66
    /\ CRequestRLPDecode(Drop(ret.arg, 1)).ok
    /\ ret.res.kind = "Err"

\* buf is a well-formed 0x43 envelope whose (v, r, s) is no signature.
InvalidSignatureEnvelope(buf) ==
    /\ buf # <<>> /\ buf[1] = 67
    /\ LET d == CRequestRLPDecode(Drop(buf, 1))
       IN  /\ d.ok
           /\ SignatureFromRsAndParity(d.val.request.r, d.val.request.s,
                                       BEValue(d.val.request.v)).kind = "Err"

\* C10: decoding a well-formed 0x43 envelope whose (v, r, s) is not a valid
\* signature returns an error to the caller: it neither panics nor yields a
\* Request.
C10_InvalidSignatureIsError ==
    (ret.op = "decode_2718" /\ InvalidSignatureEnvelope(ret.arg)) =>
        ret.res.kind = "Err"

\* The Record of a Request value.
RecordOf(req) == req.confidential_compute_record

\* C11: when the wrapped signer succeeds, sign_transaction returns a Request
\* equal to the one passed in except that its Record's signature is the one
\* the wrapped signer returned; the caller's Request is still as it was passed.
C11_SignReturnsSigned ==
    (ret.op = "sign_transaction" /\ ret.arg.signer[1].kind = "Ok") =>
        /\ ret.res = Ok([ret.arg.tx EXCEPT
                            !.confidential_compute_record.signature =
                                Some(ret.arg.signer[1].val)])
        /\ request.val = ret.arg.tx

\* The signer has signed a Request that carried another signature.
C11_Witness ==
    /\ ret.op = "sign_transaction" /\ ret.res.kind = "Ok"
    /\ RecordOf(ret.arg.tx).signature.some
    /\ RecordOf(ret.res.val).signature # RecordOf(ret.arg.tx).signature
    /\ request.val = ret.arg.tx

\* C12: every sign_transaction call invokes the wrapped signer once; when that
\* invocation fails its error is what the call returns, and the Request the
\* call worked on has no signature attached by it.
C12_SignerCalledOnce ==
    ret.op = "sign_transaction" =>
        /\ ret.calls = 1
        /\ ret.arg.signer[1].kind = "Err" =>
              /\ ret.res = ret.arg.signer[1]
              /\ ret.tx = ret.arg.tx

\* The wrapped signer failed where a second invocation would have succeeded,
\* on a Request without a signature.
C12_Witness ==
    /\ ret.op = "sign_transaction" /\ ret.res = SignerError
    /\ ret.arg.signer[2].kind = "Ok"
    /\ ~RecordOf(ret.arg.tx).signature.some

\* C13: from_tx_request returns a Record with digest and signature unset, and
\* no operation clears either: a digest that is set is set after every step,
\* and so is a signature; the Request sign_transaction returns has both when
\* the one passed in had the digest.
C13_NeverCleared ==
    [][ /\ (ret'.op = "from_tx_request" /\ ret'.res.kind = "Ok") =>
              (~record'.val.confidential_inputs_hash.some /\ ~record'.val.signature.some)
        /\ record.some =>
              /\ Target.confidential_inputs_hash.some => Target'.confidential_inputs_hash.some
              /\ Target.signature.some => Target'.signature.some
        /\ (ret'.op = "sign_transaction" /\ ret'.res.kind = "Ok") =>
              /\ RecordOf(ret'.res.val).signature.some
              /\ RecordOf(ret'.arg.tx).confidential_inputs_hash.some =>
                    RecordOf(ret'.res.val).confidential_inputs_hash.some
      ]_vars

\* Request::new has taken a Record that carried a signature and a digest.
C13_Witness ==
    /\ ret.op = "new"
    /\ record.val.signature.some /\ record.val.confidential_inputs_hash.some
    /\ Rec.signature.some /\ Rec.confidential_inputs_hash.some

\* C14 as stated: no operation changes the execution-node address or the chain
\* id of a Record once from_tx_request has returned it.
C14_NodeAndChainIdKept ==
    [][ record.some =>
          /\ Target'.kettle_address = Target.kettle_address
          /\ Target'.chain_id = Target.chain_id ]_vars

\* C14, amended: no operation changes the execution-node address; the chain id
\* changes in set_chain_id alone, which sets it to the chain id it is given.
C14_OnlySetChainIdChangesChainId ==
    [][ record.some =>
          /\ Target'.kettle_address = Target.kettle_address
          /\ Target'.chain_id # Target.chain_id => ret'.op = "set_chain_id"
          /\ ret'.op = "set_chain_id" => Target'.chain_id = ret'.arg ]_vars

\* set_chain_id has given the Request of a signed Record another chain id.
C14_Witness ==
    /\ ret.op = "set_chain_id" /\ ret.arg = ChainB
    /\ record.val.chain_id = ChainA /\ Rec.chain_id = ChainB
    /\ Rec.kettle_address = NodeA /\ Rec.signature.some

\* C15: encode_2718 and encode_2718_len, called on a Request whose digest or
\* signature is unset, return a failure value: they neither panic nor give
\* bytes or a length.
C15_IncompleteIsError ==
    (/\ ret.op \in {"encode_2718", "encode_2718_len"}
     /\ has_missing_field(Rec)) => ret.res.kind = "Err"

\* C16 as stated: no Record has its signature set while its digest is unset,
\* and no step sets or replaces the digest of a Record that has a signature.
C16_DigestThenSignature ==
    [][ (record.some /\ Target.signature.some) =>
            /\ Target.confidential_inputs_hash.some
            /\ Target'.confidential_inputs_hash = Target.confidential_inputs_hash
      ]_vars

\* C16, amended: digest and signature are set in either order.  set_sig sets
\* the signature whether or not the digest is set and leaves the digest as it
\* is; set_confidential_inputs_hash and Request::new set the digest whether or
\* not the signature is set and leave the signature as it is.
C16_EitherOrder ==
    [][ record.some =>
          /\ ret'.op = "set_sig" =>
                /\ Target'.signature = Some(ret'.arg)
                /\ Target'.confidential_inputs_hash = Target.confidential_inputs_hash
          /\ ret'.op = "set_confidential_inputs_hash" =>
                /\ Target'.confidential_inputs_hash = Some(ret'.arg)
                /\ Target'.signature = Target.signature
          /\ ret'.op = "new" =>
                /\ Target'.confidential_inputs_hash = Some(Keccak256(ret'.arg))
                /\ Target'.signature = Target.signature
      ]_vars

\* Request::new has replaced the digest of a Record that was signed while it
\* had no digest.
C16_Witness ==
    /\ ret.op = "new"
    /\ record.val.signature.some /\ ~record.val.confidential_inputs_hash.some
    /\ Rec.signature = record.val.signature /\ Rec.confidential_inputs_hash.some

\* C17: for a complete Request, encode_2718_len is the number of bytes
\* encode_2718 writes.
C17_LenIsBytesWritten ==
    (ret.op = "encode_2718_len" /\ ret.res.kind = "Ok") =>
        ret.res.val = Len(encode_2718(request.val).val)

\* C18: for a Request with its digest set, payload_len_for_signature is the
\* number of bytes encode_for_signing writes, whatever the chain id.
C18_PayloadLenIsPreimageLen ==
    (ret.op = "payload_len_for_signature" /\ ret.res.kind = "Ok") =>
        /\ ret.res.val = Len(encode_for_signing(request.val).val)
        /\ \A chain_id \in ChainIds :
              payload_len_for_signature(set_chain_id(request.val, chain_id)) = ret.res

\* C19: every byte string decode_2718 accepts is the one encode_2718 writes for
\* the Request decoded from it.
C19_DecodeIsInjective ==
    (ret.op = "decode_2718" /\ ret.res.kind = "Ok") =>
        encode_2718(ret.res.val) = Ok(ret.arg)

=============================================================================
